---- MODULE Spec2Model ----
(***************************************************************************)
(* The memory engine of raag-box-classifier: RAGMemory                     *)
(* (src/raag_enhanced.py) and the handlers that drive it                   *)
(* (src/api_enhanced.py).                                                  *)
(*                                                                         *)
(* Numbers.  Confidences and thresholds are kept in hundredths (0.85 is    *)
(* 85), so that the float comparisons of the code become integer           *)
(* comparisons.  A quotient such as low_confidence_cases /                 *)
(* total_evaluations is kept as the exact fraction [num, den]; comparing   *)
(* it with a threshold is done by cross-multiplication.  Confidences are   *)
(* finite numbers: a NaN confidence is outside the modelled inputs.        *)
(*                                                                         *)
(* Time.  datetime.utcnow().isoformat() is modelled by a reading of an     *)
(* integer clock that advances with every reading; ISO-8601 strings of     *)
(* one format compare as the instants they denote.                         *)
(*                                                                         *)
(* Records.  A prediction dict is a record with the fields the engine     *)
(* reads (result, confidence, reason) and the timestamp it adds.           *)
(***************************************************************************)
EXTENDS Integers, Sequences, FiniteSets, TLC

VARIABLES
    memory,     \* RAGMemory.memory: the in-memory state (a dict, by key)
    disk,       \* the durable blob memory.json
    clock,      \* number of readings of the wall clock so far
    ret,        \* the last operation and the value it returned
    outfile,    \* the lines of training_data.jsonl
    calls,      \* history: the update_memory calls that returned, in order
    script,     \* environment: the runs of identical updates still to submit
    free,       \* environment: how many freely chosen updates may follow
    classifier_raag,  \* the engine object classifier.raag refers to
    driver_memory     \* RAGMemory.memory of the raag of the driver API's process

vars == <<memory, disk, clock, ret, outfile, calls, script, free,
          classifier_raag, driver_memory>>

\* the engine objects besides the one bound to raag
peers == <<classifier_raag, driver_memory>>

----------------------------------------------------------------------------
(* Program constants *)

confidence_threshold == 85
drift_threshold == 30
HighCapacity == 100
LowCapacity == 50
HistoryCapacity == 100
RetrieveWindow == 20
MinDriftSamples == 10
MinTrainingSamples == 50

(* Bounds of the model *)

\* freely chosen updates after the scripted opening (update-only runs)
MaxFree == 5
\* freely chosen operations after the scripted opening (runs with other
\* operations between the updates)
MaxOps == 3

----------------------------------------------------------------------------
(* Python list slicing *)

Min(a, b) == IF a <= b THEN a ELSE b
Max(a, b) == IF a >= b THEN a ELSE b

\* a variant that keeps the oldest k elements, s[:k]
SliceLast_keeping_oldest(s, k) ==
    IF Len(s) <= k THEN s ELSE SubSeq(s, 1, k)

\* s[-k:] for k > 0: the last k elements, all of s when it is shorter
SliceLast(s, k) ==
    IF Len(s) <= k THEN s ELSE SubSeq(s, Len(s) - k + 1, Len(s))

\* s[:n]: the first n elements; a negative n counts from the end
SliceFirst(s, n) ==
    IF n >= 0 THEN SubSeq(s, 1, Min(n, Len(s)))
    ELSE SubSeq(s, 1, Max(0, Len(s) + n))

----------------------------------------------------------------------------
(* Construction *)

\* the document _initialize_memory writes, as json.load returns it
initial_memory ==
    [ box_condition |-> << >>,
      statistics |-> [ total_evaluations |-> 0,
                       correct_predictions |-> 0,
                       low_confidence_cases |-> 0,
                       last_accuracy |-> [num |-> 1, den |-> 1],
                       drift_score |-> [num |-> 0, den |-> 1] ],
      patterns |-> [ common_damages |-> << >>,
                     edge_cases |-> << >>,
                     confidence_history |-> << >> ],
      reinforcement_data |-> [ high_confidence_correct |-> << >>,
                               low_confidence_cases |-> << >>,
                               model_improvements |-> << >> ] ]

\* the top-level keys whose value is a dict, not a list of records
DictKeys == {"statistics", "patterns", "reinforcement_data"}

\* json.dump(self.memory, f) on a file opened with "w": the blob now exists
\* and holds the whole document
json_dump(mem) == [exists |-> TRUE, document |-> mem]

\* no file at the path of the blob
NoBlob == [exists |-> FALSE, document |-> [cut |-> "absent"]]

\* a blob whose text stops short of the whole document: "empty" is the file
\* as open(..., "w") leaves it, "partial" a proper prefix of the text
\* json.dump was writing
Truncated(cut) == [exists |-> TRUE, document |-> [cut |-> cut]]

\* json.load accepts the text: a proper prefix of the text of a JSON object
\* lacks its closing brace, and the empty text holds no value
Parses(document) == "cut" \notin DOMAIN document

\* the process holds no engine: the constructor raised
NoEngine == [engine |-> "none"]

\* classifier.raag is the object bound to the module-level name raag
SameEngine == [engine |-> "raag"]

\* a variant that loads every high-confidence entry as not yet consumed
_load_memory_unconsumed(blob) ==
    IF Parses(blob.document)
    THEN [raised |-> "None",
          value |-> [blob.document EXCEPT
                       !.reinforcement_data.high_confidence_correct =
                           [i \in 1..Len(@) |->
                               [@[i] EXCEPT !.used_for_training = FALSE]]]]
    ELSE [raised |-> "JSONDecodeError", value |-> NoEngine]

\* _load_memory: json.load of the blob, or the exception it raises
_load_memory(blob) ==
    IF Parses(blob.document)
    THEN [raised |-> "None", value |-> blob.document]
    ELSE [raised |-> "JSONDecodeError", value |-> NoEngine]

\* a variant that replaces a blob it cannot parse by the initial document
RAGMemory_repairing(blob) ==
    LET initialized == IF ~blob.exists \/ ~Parses(blob.document)
                       THEN json_dump(initial_memory) ELSE blob
        loaded == _load_memory(initialized)
    IN [disk |-> initialized, memory |-> loaded.value, raised |-> loaded.raised]

\* RAGMemory.__init__: the blob it leaves, the in-memory state of the new
\* engine and the exception raised, if any
RAGMemory(blob) ==
    LET initialized == IF ~blob.exists THEN json_dump(initial_memory) ELSE blob
        loaded == _load_memory(initialized)
    IN [disk |-> initialized, memory |-> loaded.value, raised |-> loaded.raised]

\* a variant of the reset handler that leaves the blob where it is
reset_memory_keeping_blob(mem, blob) ==
    LET built == RAGMemory(blob)
    IN IF built.raised = "None"
       THEN [memory |-> built.memory, disk |-> built.disk, raised |-> "None"]
       ELSE [memory |-> mem, disk |-> built.disk, raised |-> built.raised]

\* the handler of POST /reset_memory: os.remove of the blob, then the name
\* raag bound to a new RAGMemory(); the binding stays when the constructor
\* raises
reset_memory(mem, blob) ==
    LET built == RAGMemory(NoBlob)
    IN IF built.raised = "None"
       THEN [memory |-> built.memory, disk |-> built.disk, raised |-> "None"]
       ELSE [memory |-> mem, disk |-> built.disk, raised |-> built.raised]

\* the blobs a _save_memory that raises may leave: the old one when open
\* fails, a truncated one when a write fails after open emptied the file
FailedSaves(blob) == {blob, Truncated("empty"), Truncated("partial")}

----------------------------------------------------------------------------
(* update_memory and its steps, as functions of the in-memory state *)

\* float("nan"), which float() of the classifier and json.loads produce and
\* nothing rejects; a number no finite confidence in hundredths equals
NaN == 1000000

\* a < b and a >= b of Python floats: every comparison with nan is false
Less(a, b) == a # NaN /\ b # NaN /\ a < b
GreaterEq(a, b) == a # NaN /\ b # NaN /\ a >= b

\* the timestamp update_memory adds to the caller's dict
Stamped(prediction_data, now) ==
    [ result |-> prediction_data.result,
      confidence |-> prediction_data.confidence,
      reason |-> prediction_data.reason,
      timestamp |-> now ]

\* a variant that counts an evaluation only when it is not a low-confidence one
_update_statistics_else_branch(mem, confidence) ==
    LET hist == Append(mem.patterns.confidence_history, confidence)
    IN [mem EXCEPT
          !.statistics.total_evaluations =
              IF confidence < confidence_threshold THEN @ ELSE @ + 1,
          !.patterns.confidence_history =
              IF Len(hist) > HistoryCapacity
              THEN SliceLast(hist, HistoryCapacity) ELSE hist,
          !.statistics.low_confidence_cases =
              IF confidence < confidence_threshold THEN @ + 1 ELSE @]

\* a variant that, once the history is full, drops the new confidence
_update_statistics_full_window(mem, confidence) ==
    LET hist == Append(mem.patterns.confidence_history, confidence)
    IN [mem EXCEPT
          !.statistics.total_evaluations = @ + 1,
          !.patterns.confidence_history =
              IF Len(hist) > HistoryCapacity
              THEN SliceFirst(hist, HistoryCapacity) ELSE hist,
          !.statistics.low_confidence_cases =
              IF confidence < confidence_threshold THEN @ + 1 ELSE @]

_update_statistics(mem, confidence) ==
    LET hist == Append(mem.patterns.confidence_history, confidence)
    IN [mem EXCEPT
          !.statistics.total_evaluations = @ + 1,
          !.patterns.confidence_history =
              IF Len(hist) > HistoryCapacity
              THEN SliceLast(hist, HistoryCapacity) ELSE hist,
          !.statistics.low_confidence_cases =
              IF Less(confidence, confidence_threshold) THEN @ + 1 ELSE @]

\* a variant that sends a confidence equal to the threshold to the low bucket
_apply_reinforcement_learning_strict(mem, prediction_data, confidence) ==
    IF confidence > confidence_threshold
    THEN LET entry == [ prediction |-> prediction_data,
                        timestamp |-> prediction_data.timestamp,
                        used_for_training |-> FALSE ]
             bucket == Append(mem.reinforcement_data.high_confidence_correct, entry)
         IN [mem EXCEPT !.reinforcement_data.high_confidence_correct =
                 IF Len(bucket) > HighCapacity
                 THEN SliceLast(bucket, HighCapacity) ELSE bucket]
    ELSE LET entry == [ prediction |-> prediction_data,
                        timestamp |-> prediction_data.timestamp,
                        needs_review |-> TRUE ]
             bucket == Append(mem.reinforcement_data.low_confidence_cases, entry)
         IN [mem EXCEPT !.reinforcement_data.low_confidence_cases =
                 IF Len(bucket) > LowCapacity
                 THEN SliceLast(bucket, LowCapacity) ELSE bucket]

\* a variant that enters a high-confidence record as already consumed
_apply_reinforcement_learning_consumed(mem, prediction_data, confidence) ==
    IF confidence >= confidence_threshold
    THEN LET entry == [ prediction |-> prediction_data,
                        timestamp |-> prediction_data.timestamp,
                        used_for_training |-> TRUE ]
             bucket == Append(mem.reinforcement_data.high_confidence_correct, entry)
         IN [mem EXCEPT !.reinforcement_data.high_confidence_correct =
                 IF Len(bucket) > HighCapacity
                 THEN SliceLast(bucket, HighCapacity) ELSE bucket]
    ELSE LET entry == [ prediction |-> prediction_data,
                        timestamp |-> prediction_data.timestamp,
                        needs_review |-> TRUE ]
             bucket == Append(mem.reinforcement_data.low_confidence_cases, entry)
         IN [mem EXCEPT !.reinforcement_data.low_confidence_cases =
                 IF Len(bucket) > LowCapacity
                 THEN SliceLast(bucket, LowCapacity) ELSE bucket]

_apply_reinforcement_learning(mem, prediction_data, confidence) ==
    IF GreaterEq(confidence, confidence_threshold)
    THEN LET entry == [ prediction |-> prediction_data,
                        timestamp |-> prediction_data.timestamp,
                        used_for_training |-> FALSE ]
             bucket == Append(mem.reinforcement_data.high_confidence_correct, entry)
         IN [mem EXCEPT !.reinforcement_data.high_confidence_correct =
                 IF Len(bucket) > HighCapacity
                 THEN SliceLast(bucket, HighCapacity) ELSE bucket]
    ELSE LET entry == [ prediction |-> prediction_data,
                        timestamp |-> prediction_data.timestamp,
                        needs_review |-> TRUE ]
             bucket == Append(mem.reinforcement_data.low_confidence_cases, entry)
         IN [mem EXCEPT !.reinforcement_data.low_confidence_cases =
                 IF Len(bucket) > LowCapacity
                 THEN SliceLast(bucket, LowCapacity) ELSE bucket]

\* a variant that also accepts a rate equal to the threshold
ExceedsThreshold_or_equal(rate, threshold) == rate.num * 100 >= threshold * rate.den

\* low_conf_rate > self.drift_threshold, the threshold in hundredths
ExceedsThreshold(rate, threshold) == rate.num * 100 > threshold * rate.den

_log_drift_alert(mem, drift_score, now) ==
    [mem EXCEPT !.reinforcement_data.model_improvements =
        Append(@, [ timestamp |-> now,
                    event |-> "DRIFT_DETECTED",
                    drift_score |-> drift_score,
                    action |-> "Recommend model retraining or prompt adjustment" ])]

\* a variant whose sample-size guard is off by one (total <= 10)
_detect_drift_late(mem, now) ==
    LET total == mem.statistics.total_evaluations
        low_conf_rate == [num |-> mem.statistics.low_confidence_cases, den |-> total]
        scored == [mem EXCEPT !.statistics.drift_score = low_conf_rate]
    IN IF total <= MinDriftSamples THEN mem
       ELSE IF ExceedsThreshold(low_conf_rate, drift_threshold)
            THEN _log_drift_alert(scored, low_conf_rate, now)
            ELSE scored

_detect_drift(mem, now) ==
    LET total == mem.statistics.total_evaluations
        low_conf_rate == [num |-> mem.statistics.low_confidence_cases, den |-> total]
        scored == [mem EXCEPT !.statistics.drift_score = low_conf_rate]
    IN IF total < MinDriftSamples THEN mem
       ELSE IF ExceedsThreshold(low_conf_rate, drift_threshold)
            THEN _log_drift_alert(scored, low_conf_rate, now)
            ELSE scored

\* the in-memory state update_memory leaves; now1 and now2 are the two clock
\* readings it may take (the record's timestamp, the drift event's)
update_memory(mem, category, prediction_data, now1, now2) ==
    LET stamped == Stamped(prediction_data, now1)
        confidence == stamped.confidence
        keyed == IF category \in DOMAIN mem THEN mem ELSE mem @@ (category :> << >>)
        logged == [keyed EXCEPT ![category] = Append(@, stamped)]
        counted == _update_statistics(logged, confidence)
        bucketed == _apply_reinforcement_learning(counted, stamped, confidence)
    IN _detect_drift(bucketed, now2)


----------------------------------------------------------------------------
(* retrieve_context *)

\* a variant whose tie-break prefers the older record
KeyLess_oldest_first(a, b) ==
    \/ a.confidence < b.confidence
    \/ a.confidence = b.confidence /\ a.timestamp > b.timestamp

\* the sort key (confidence, timestamp) of the lambda, compared as tuples
KeyLess(a, b) ==
    \/ a.confidence < b.confidence
    \/ a.confidence = b.confidence /\ a.timestamp < b.timestamp

\* sorted(examples, key=..., reverse=True): descending, records with equal
\* keys kept in their original order; computed by insertion
RECURSIVE sorted_reverse(_)
sorted_reverse(examples) ==
    IF examples = << >> THEN << >>
    ELSE LET rest == sorted_reverse(SubSeq(examples, 1, Len(examples) - 1))
             x == examples[Len(examples)]
             k == Cardinality({i \in 1..Len(rest) : ~KeyLess(rest[i], x)})
         IN SubSeq(rest, 1, k) \o <<x>> \o SubSeq(rest, k + 1, Len(rest))

\* a variant that ranks the whole category log, without the window
retrieve_context_unwindowed(mem, category, n) ==
    IF category \notin DOMAIN mem THEN << >>
    ELSE SliceFirst(sorted_reverse(mem[category]), n)

retrieve_context(mem, category, n) ==
    IF category \notin DOMAIN mem THEN << >>
    ELSE LET examples == mem[category]
             sorted_examples == sorted_reverse(SliceLast(examples, RetrieveWindow))
         IN SliceFirst(sorted_examples, n)

\* a call of retrieve_context: the exception it raises, if any, and the
\* value it returns; examples[-20:] on a dict raises (TypeError up to
\* Python 3.11, KeyError from 3.12, where a slice is hashable)
retrieve_context_call(mem, category, n) ==
    IF category \in DOMAIN mem /\ category \in DictKeys
    THEN [raised |-> "TypeError", value |-> "None"]
    ELSE [raised |-> "None", value |-> retrieve_context(mem, category, n)]

----------------------------------------------------------------------------
(* The training set: get_training_dataset, mark_as_used_for_training,      *)
(* should_trigger_retraining, export_for_finetuning                        *)

\* a variant that forgets the used_for_training filter
get_training_dataset_unfiltered(mem) ==
    LET high_conf == mem.reinforcement_data.high_confidence_correct
    IN [i \in 1..Len(high_conf) |-> high_conf[i].prediction]

get_training_dataset(mem) ==
    LET high_conf == mem.reinforcement_data.high_confidence_correct
        unused == SelectSeq(high_conf, LAMBDA item : ~item.used_for_training)
    IN [i \in 1..Len(unused) |-> unused[i].prediction]

\* a variant that flips the flag instead of setting it
mark_as_used_for_training_toggling(mem, n_samples) ==
    LET high_conf == mem.reinforcement_data.high_confidence_correct
        reached == Len(SliceFirst(high_conf, n_samples))
    IN [mem EXCEPT !.reinforcement_data.high_confidence_correct =
           [i \in 1..Len(high_conf) |->
               IF i <= reached
               THEN [high_conf[i] EXCEPT !.used_for_training = ~@]
               ELSE high_conf[i]]]

\* a variant that consumes the newest n_samples entries
mark_as_used_for_training_newest(mem, n_samples) ==
    LET high_conf == mem.reinforcement_data.high_confidence_correct
        reached == Len(SliceFirst(high_conf, n_samples))
    IN [mem EXCEPT !.reinforcement_data.high_confidence_correct =
           [i \in 1..Len(high_conf) |->
               IF i > Len(high_conf) - reached
               THEN [high_conf[i] EXCEPT !.used_for_training = TRUE]
               ELSE high_conf[i]]]

\* the in-memory state mark_as_used_for_training leaves
mark_as_used_for_training(mem, n_samples) ==
    LET high_conf == mem.reinforcement_data.high_confidence_correct
        reached == Len(SliceFirst(high_conf, n_samples))
    IN [mem EXCEPT !.reinforcement_data.high_confidence_correct =
           [i \in 1..Len(high_conf) |->
               IF i <= reached
               THEN [high_conf[i] EXCEPT !.used_for_training = TRUE]
               ELSE high_conf[i]]]

\* a variant that asks for more than 50 samples
should_trigger_retraining_above(mem) ==
    /\ Len(get_training_dataset(mem)) > MinTrainingSamples
    /\ ExceedsThreshold(mem.statistics.drift_score, drift_threshold)

should_trigger_retraining(mem) ==
    /\ Len(get_training_dataset(mem)) >= MinTrainingSamples
    /\ ExceedsThreshold(mem.statistics.drift_score, drift_threshold)

RECURSIVE Sum(_)
Sum(s) == IF s = << >> THEN 0 ELSE Head(s) + Sum(Tail(s))

\* np.mean of a non-empty list, as an exact fraction
Mean(s) == [num |-> Sum(s), den |-> Len(s)]

\* a variant that reports the length of the high bucket as the samples
\* available
get_statistics_counting_bucket(mem) ==
    LET stats == mem.statistics
        conf_history == mem.patterns.confidence_history
        avg_confidence == IF conf_history # << >> THEN Mean(conf_history)
                          ELSE [num |-> 0, den |-> 1]
        recent_trend == IF conf_history = << >> THEN [num |-> 0, den |-> 1]
                        ELSE IF Len(conf_history) >= 10
                             THEN Mean(SliceLast(conf_history, 10))
                             ELSE avg_confidence
    IN [ total_evaluations |-> stats.total_evaluations,
         low_confidence_cases |-> stats.low_confidence_cases,
         low_confidence_rate |-> [ num |-> stats.low_confidence_cases,
                                   den |-> Max(stats.total_evaluations, 1) ],
         drift_score |-> stats.drift_score,
         average_confidence |-> avg_confidence,
         recent_confidence_trend |-> recent_trend,
         training_samples_available |->
             Len(mem.reinforcement_data.high_confidence_correct) ]

\* get_statistics: the dict it returns
get_statistics(mem) ==
    LET stats == mem.statistics
        conf_history == mem.patterns.confidence_history
        avg_confidence == IF conf_history # << >> THEN Mean(conf_history)
                          ELSE [num |-> 0, den |-> 1]
        recent_trend == IF conf_history = << >> THEN [num |-> 0, den |-> 1]
                        ELSE IF Len(conf_history) >= 10
                             THEN Mean(SliceLast(conf_history, 10))
                             ELSE avg_confidence
    IN [ total_evaluations |-> stats.total_evaluations,
         low_confidence_cases |-> stats.low_confidence_cases,
         low_confidence_rate |-> [ num |-> stats.low_confidence_cases,
                                   den |-> Max(stats.total_evaluations, 1) ],
         drift_score |-> stats.drift_score,
         average_confidence |-> avg_confidence,
         recent_confidence_trend |-> recent_trend,
         training_samples_available |-> Len(get_training_dataset(mem)) ]

\* json.dumps of the assistant payload: the keys in the order written, each
\* with the value item.get reads
AssistantPayload(item) ==
    << <<"status", item.result>>,
       <<"reason", item.reason>>,
       <<"confidence", item.confidence>> >>

\* one line of the JSONL file
TrainingExample(item) ==
    [ messages |->
        << [ role |-> "system",
             content |-> "You are an expert at evaluating delivery box conditions." ],
           [ role |-> "user",
             content |-> <<"Classify this box condition. Previous result: ", item.result>> ],
           [ role |-> "assistant",
             content |-> AssistantPayload(item) ] >> ]

\* a variant that marks what it exports as used
export_for_finetuning_consuming(mem) ==
    LET training_data == get_training_dataset(mem)
    IN [ memory |-> mark_as_used_for_training(
                        mem, Len(mem.reinforcement_data.high_confidence_correct)),
         lines |-> [i \in 1..Len(training_data) |-> TrainingExample(training_data[i])],
         value |-> "training_data.jsonl" ]

\* export_for_finetuning: the in-memory state it leaves, the lines it writes
\* to the output file (opened with "w") and the path it returns
export_for_finetuning(mem) ==
    LET training_data == get_training_dataset(mem)
    IN [ memory |-> mem,
         lines |-> [i \in 1..Len(training_data) |-> TrainingExample(training_data[i])],
         value |-> "training_data.jsonl" ]

----------------------------------------------------------------------------
(* EnhancedClassifier.classify_box_condition and the upload handlers *)

\* the dict classify_box_condition returns from its except branch
ErrorResult ==
    [ status |-> "ERROR", confidence |-> 0,
      reason |-> "Classification failed", result |-> "ERROR" ]

\* what happens inside the try block: the API call or the parsing raises,
\* or _parse_response returns a structured result
ApiRaises == [kind |-> "raise"]
Parsed(data) == [kind |-> "result", data |-> data]

\* how the save at the end of update_memory ends
Saved == [ok |-> TRUE]
SaveRaises(left) == [ok |-> FALSE, left |-> left]
SaveOutcomes(blob) == {Saved} \cup {SaveRaises(left) : left \in FailedSaves(blob)}

\* classify_box_condition on the engine whose in-memory state is mem: the
\* state and the blob it leaves and the dict it returns; every exception
\* raised in the try block, that of update_memory included, ends in the
\* except branch
classify_box_condition(mem, blob, response, save, now1, now2) ==
    IF response.kind = "raise"
    THEN [memory |-> mem, disk |-> blob, value |-> ErrorResult, updated |-> FALSE]
    ELSE LET updated == update_memory(mem, "box_condition", response.data, now1, now2)
         IN IF save.ok
            THEN [ memory |-> updated, disk |-> json_dump(updated),
                   value |-> Stamped(response.data, now1), updated |-> TRUE ]
            ELSE [ memory |-> updated, disk |-> save.left,
                   value |-> ErrorResult, updated |-> TRUE ]

\* result["driver_id"] = ..., result["box_id"] = ..., result["image_id"] = ...
AddMetadata(result, meta) ==
    [driver_id |-> meta.driver_id, box_id |-> meta.box_id,
     image_id |-> meta.image_id] @@ result

\* the in-memory state once the dict that update_memory appended last has
\* been changed by its caller: the category log and the bucket entry refer
\* to that same dict
WithLastRecord(mem, category, record) ==
    LET high == mem.reinforcement_data.high_confidence_correct
        low == mem.reinforcement_data.low_confidence_cases
        relogged == [mem EXCEPT ![category][Len(mem[category])] = record]
    IN IF record.confidence >= confidence_threshold
       THEN [relogged EXCEPT
               !.reinforcement_data.high_confidence_correct[Len(high)].prediction
                   = record]
       ELSE [relogged EXCEPT
               !.reinforcement_data.low_confidence_cases[Len(low)].prediction
                   = record]

----------------------------------------------------------------------------
(* The environment: what the callers submit *)

HighInput ==
    [ category |-> "box_condition",
      data |-> [result |-> "OK", confidence |-> 90, reason |-> "intact"] ]
LowInput ==
    [ category |-> "box_condition",
      data |-> [result |-> "NEEDS_FIX", confidence |-> 50, reason |-> "unclear"] ]
EdgeInput ==
    [ category |-> "box_condition",
      data |-> [result |-> "NEEDS_FIX", confidence |-> 85, reason |-> "torn flap"] ]
OtherInput ==
    [ category |-> "driver_note",
      data |-> [result |-> "OK", confidence |-> 100, reason |-> "human feedback"] ]

Inputs == {HighInput, LowInput, EdgeInput, OtherInput}

Run(input, times) == [input |-> input, times |-> times]

\* a scripted mark_as_used_for_training(n_samples)
Mark(n_samples) ==
    [ input |-> [category |-> "mark_as_used_for_training", n_samples |-> n_samples],
      times |-> 1 ]
IsMark(input) == input.category = "mark_as_used_for_training"

\* scripted openings of the update-only runs: runs of identical updates that
\* bring the engine next to each capacity and sample-size limit
Scripts ==
    { << >>,
      << Run(HighInput, 7) >>,
      << Run(LowInput, 7) >>,
      << Run(HighInput, 10) >>,
      << Run(HighInput, 99), Run(LowInput, 49) >> }

\* scripted openings of the runs with retrieval: one category log next to
\* the window of 20, with the best records oldest, newest, or all alike
RetrieveScripts ==
    { << >>,
      << Run(HighInput, 2), Run(LowInput, 17) >>,
      << Run(LowInput, 17), Run(HighInput, 2) >>,
      << Run(EdgeInput, 19) >> }

\* scripted openings of the runs with marking and export: a fresh engine, a
\* small mixed one, and engines next to the 50-sample limit with the drift
\* score above and exactly at the threshold
TrainingScripts ==
    { << >>,
      << Run(HighInput, 4), Run(LowInput, 1) >>,
      << Run(HighInput, 49), Run(LowInput, 22) >>,
      << Run(HighInput, 55), Run(LowInput, 23) >> }

\* scripted openings of the runs with storage faults, restarts and reset:
\* a fresh engine, and one an update away from its first drift event
StorageScripts ==
    { << >>,
      << Run(HighInput, 2), Run(LowInput, 7) >> }

\* scripted openings of the runs with restarts: a fresh engine, and one whose
\* buckets and confidence history are full
RestartScripts ==
    { << >>,
      << Run(HighInput, 100), Run(LowInput, 50) >> }

\* scripted openings of the runs about retraining after a mark of the whole
\* bucket: a fresh engine, one an update away from 50 new samples with the
\* drift score above the threshold, and one with a full bucket an update
\* away from 100 new samples
RetrainingScripts ==
    { << >>,
      << Run(LowInput, 40), Run(HighInput, 5), Mark(200), Run(HighInput, 49) >>,
      << Run(HighInput, 100), Mark(100), Run(HighInput, 99) >> }

\* the updates whose save may fail
StorageInputs == {HighInput, LowInput}

\* the blob a starting process may find: none, or one cut short
StartBlobs == {NoBlob, Truncated("partial")}

CategoryArgs == {"box_condition", "driver_note", "unknown"}
NArgs == {0, 1, 5, 20, 25}
NSamplesArgs == {0, 1, 2, 200}

\* records whose confidence is not in [0, 1]: float(result.get("confidence"))
\* of the classifier and a direct caller of update_memory may pass any number
OverInput ==
    [ category |-> "box_condition",
      data |-> [result |-> "OK", confidence |-> 150, reason |-> "intact"] ]
NegativeInput ==
    [ category |-> "box_condition",
      data |-> [result |-> "NEEDS_FIX", confidence |-> -20, reason |-> "unclear"] ]

NaNInput ==
    [ category |-> "box_condition",
      data |-> [result |-> "OK", confidence |-> NaN, reason |-> "intact"] ]

AnyInputs == Inputs \cup {OverInput, NegativeInput, NaNInput}

\* scripted openings of the runs with statistics reads: a fresh engine, and
\* one whose high bucket is an update away from its capacity
StatisticsScripts ==
    { << >>,
      << Run(HighInput, 99), Run(LowInput, 3) >> }

\* what the classifier parses out of the model's answers
ClassifierResults == {HighInput.data, LowInput.data}
ClassifierResponses == {ApiRaises} \cup {Parsed(data) : data \in ClassifierResults}

\* the labels a human may submit as feedback
FeedbackLabels == {"OK", "NEEDS_FIX"}

\* the form fields of an upload to the driver API
UploadMeta == {[driver_id |-> "d1", box_id |-> "", image_id |-> "img1.jpg"]}

\* the categories a caller may ask about: every top-level key and one absent
KeyArgs == CategoryArgs \cup DictKeys
CountArgs == {0, 5}

\* what the caller may submit next
NextInputs ==
    IF script # << >> THEN {input \in {Head(script).input} : ~IsMark(input)}
    ELSE IF free > 0 THEN Inputs ELSE {}

AfterSubmit ==
    IF script = << >> THEN script
    ELSE IF Head(script).times > 1
         THEN <<Run(Head(script).input, Head(script).times - 1)>> \o Tail(script)
         ELSE Tail(script)

----------------------------------------------------------------------------
(* Actions *)

NoReturn == [op |-> "none", args |-> << >>, value |-> "None"]

\* a fresh engine: no blob existed, __init__ wrote the initial document and
\* loaded it
InitWith(scripts, budget) ==
    /\ memory = initial_memory
    /\ disk = json_dump(initial_memory)
    /\ clock = 0
    /\ ret = NoReturn
    /\ outfile = << >>
    /\ calls = << >>
    /\ script \in scripts
    /\ free = budget
    /\ classifier_raag = SameEngine
    /\ driver_memory = NoEngine

\* a variant that saves before the drift evaluation
UpdateMemory_saving_early ==
    \E input \in NextInputs :
        LET now1 == clock + 1
            now2 == clock + 2
            updated == update_memory(memory, input.category, input.data, now1, now2)
            early == [updated EXCEPT
                        !.statistics.drift_score = memory.statistics.drift_score,
                        !.reinforcement_data.model_improvements =
                            memory.reinforcement_data.model_improvements]
            alerted == Len(updated.reinforcement_data.model_improvements)
                         > Len(memory.reinforcement_data.model_improvements)
        IN /\ memory' = updated
           /\ disk' = json_dump(early)
           /\ clock' = IF alerted THEN now2 ELSE now1
           /\ ret' = [op |-> "update_memory", args |-> << >>, value |-> "None"]
           /\ calls' = Append(calls, [ category |-> input.category,
                                        record |-> Stamped(input.data, now1) ])
           /\ script' = AfterSubmit
           /\ free' = IF script = << >> THEN free - 1 ELSE free
           /\ UNCHANGED <<outfile, peers>>

UpdateMemory ==
    \E input \in NextInputs :
        LET now1 == clock + 1
            now2 == clock + 2
            updated == update_memory(memory, input.category, input.data, now1, now2)
            alerted == Len(updated.reinforcement_data.model_improvements)
                         > Len(memory.reinforcement_data.model_improvements)
        IN /\ memory' = updated
           /\ disk' = json_dump(updated)
           /\ clock' = IF alerted THEN now2 ELSE now1
           /\ ret' = [op |-> "update_memory", args |-> << >>, value |-> "None"]
           /\ calls' = Append(calls, [ category |-> input.category,
                                        record |-> Stamped(input.data, now1) ])
           /\ script' = AfterSubmit
           /\ free' = IF script = << >> THEN free - 1 ELSE free
           /\ UNCHANGED <<outfile, peers>>

RetrieveContext ==
    \E category \in CategoryArgs, n \in NArgs :
        /\ script = << >>
        /\ ret' = [op |-> "retrieve_context",
                   args |-> [category |-> category, n |-> n],
                   value |-> retrieve_context(memory, category, n)]
        /\ UNCHANGED <<memory, disk, clock, outfile, calls, script, free, peers>>

\* update_memory with any number as confidence: no step of it looks at the
\* range, and it returns normally
UpdateMemoryUnvalidated ==
    \E input \in AnyInputs :
        LET now1 == clock + 1
            now2 == clock + 2
            updated == update_memory(memory, input.category, input.data, now1, now2)
            alerted == Len(updated.reinforcement_data.model_improvements)
                         > Len(memory.reinforcement_data.model_improvements)
        IN /\ script = << >>
           /\ free > 0
           /\ memory' = updated
           /\ disk' = json_dump(updated)
           /\ clock' = IF alerted THEN now2 ELSE now1
           /\ ret' = [op |-> "update_memory",
                      args |-> [ category |-> input.category,
                                 confidence |-> input.data.confidence ],
                      value |-> "None"]
           /\ calls' = Append(calls, [ category |-> input.category,
                                        record |-> Stamped(input.data, now1) ])
           /\ free' = free - 1
           /\ UNCHANGED <<outfile, script, peers>>

\* retrieve_context asked about any top-level key
RetrieveContextOfKey ==
    \E category \in KeyArgs, n \in CountArgs :
        LET call == retrieve_context_call(memory, category, n)
        IN /\ script = << >>
           /\ ret' = [op |-> "retrieve_context",
                      args |-> [category |-> category, n |-> n],
                      raised |-> call.raised,
                      value |-> call.value]
           /\ UNCHANGED <<memory, disk, clock, outfile, calls, script, free, peers>>

MarkAsUsedForTraining ==
    \E n_samples \in NSamplesArgs :
        LET marked == mark_as_used_for_training(memory, n_samples)
        IN /\ script = << >>
           /\ free > 0
           /\ memory' = marked
           /\ disk' = json_dump(marked)
           /\ ret' = [op |-> "mark_as_used_for_training",
                      args |-> [n_samples |-> n_samples], value |-> "None"]
           /\ free' = free - 1
           /\ UNCHANGED <<clock, outfile, calls, script, peers>>

\* mark_as_used_for_training as a step of a scripted opening
MarkScripted ==
    /\ script # << >>
    /\ IsMark(Head(script).input)
    /\ LET n_samples == Head(script).input.n_samples
           marked == mark_as_used_for_training(memory, n_samples)
       IN /\ memory' = marked
          /\ disk' = json_dump(marked)
          /\ ret' = [op |-> "mark_as_used_for_training",
                     args |-> [n_samples |-> n_samples], value |-> "None"]
    /\ script' = Tail(script)
    /\ UNCHANGED <<clock, outfile, calls, free, peers>>

GetStatistics ==
    /\ script = << >>
    /\ ret' = [op |-> "get_statistics", args |-> << >>,
               value |-> get_statistics(memory)]
    /\ UNCHANGED <<memory, disk, clock, outfile, calls, script, free, peers>>

ShouldTriggerRetraining ==
    /\ script = << >>
    /\ ret' = [op |-> "should_trigger_retraining", args |-> << >>,
               value |-> should_trigger_retraining(memory)]
    /\ UNCHANGED <<memory, disk, clock, outfile, calls, script, free, peers>>

\* the handler of POST /export_training_data
ExportTrainingData ==
    LET exported == export_for_finetuning(memory)
    IN /\ script = << >>
       /\ memory' = exported.memory
       /\ outfile' = exported.lines
       /\ ret' = [op |-> "export_training_data", args |-> << >>,
                  value |-> [ status |-> "success",
                              file |-> exported.value,
                              samples |-> Len(get_training_dataset(exported.memory)) ]]
       /\ UNCHANGED <<disk, clock, calls, script, free, peers>>

\* the process holds an engine
EngineUp == memory # NoEngine

\* the process starts, or stops and starts again: the module-level
\* raag = RAGMemory(...) runs against the blob as it is
Start ==
    LET built == RAGMemory(disk)
    IN /\ memory = NoEngine \/ (script = << >> /\ free > 0)
       /\ memory' = built.memory
       /\ disk' = built.disk
       /\ ret' = [op |-> "__init__", args |-> << >>, value |-> built.raised]
       /\ free' = IF memory = NoEngine THEN free ELSE free - 1
       /\ classifier_raag' = SameEngine
       /\ UNCHANGED <<clock, outfile, calls, script, driver_memory>>

\* update_memory while the engine is up
UpdateMemoryLive == EngineUp /\ UpdateMemory

\* mark_as_used_for_training while the engine is up
MarkLive == EngineUp /\ MarkAsUsedForTraining

\* a variant that restores the in-memory state when the save raises
UpdateMemorySaveFails_rolling_back ==
    \E input \in StorageInputs, left \in FailedSaves(disk) :
        LET now1 == clock + 1
            now2 == clock + 2
            updated == update_memory(memory, input.category, input.data, now1, now2)
            alerted == Len(updated.reinforcement_data.model_improvements)
                         > Len(memory.reinforcement_data.model_improvements)
        IN /\ EngineUp
           /\ script = << >>
           /\ free > 0
           /\ memory' = memory
           /\ disk' = left
           /\ clock' = IF alerted THEN now2 ELSE now1
           /\ ret' = [op |-> "update_memory",
                      args |-> [ category |-> input.category,
                                 record |-> Stamped(input.data, now1) ],
                      value |-> "OSError"]
           /\ free' = free - 1
           /\ UNCHANGED <<outfile, calls, script, peers>>

\* update_memory whose last step, _save_memory, raises: the exception
\* leaves update_memory, the steps before the save have run
UpdateMemorySaveFails ==
    \E input \in StorageInputs, left \in FailedSaves(disk) :
        LET now1 == clock + 1
            now2 == clock + 2
            updated == update_memory(memory, input.category, input.data, now1, now2)
            alerted == Len(updated.reinforcement_data.model_improvements)
                         > Len(memory.reinforcement_data.model_improvements)
        IN /\ EngineUp
           /\ script = << >>
           /\ free > 0
           /\ memory' = updated
           /\ disk' = left
           /\ clock' = IF alerted THEN now2 ELSE now1
           /\ ret' = [op |-> "update_memory",
                      args |-> [ category |-> input.category,
                                 record |-> Stamped(input.data, now1) ],
                      value |-> "OSError"]
           /\ free' = free - 1
           /\ UNCHANGED <<outfile, calls, script, peers>>

\* the handler of POST /reset_memory
ResetMemory ==
    LET reset == reset_memory(memory, disk)
    IN /\ EngineUp
       /\ script = << >>
       /\ free > 0
       /\ memory' = reset.memory
       /\ disk' = reset.disk
       /\ ret' = [op |-> "reset_memory", args |-> << >>,
                  value |-> IF reset.raised = "None"
                            THEN [ status |-> "success",
                                   message |-> "Memory reset complete" ]
                            ELSE reset.raised]
       /\ free' = free - 1
       /\ classifier_raag' = IF reset.raised = "None" /\ classifier_raag = SameEngine
                             THEN memory ELSE classifier_raag
       /\ UNCHANGED <<clock, outfile, calls, script, driver_memory>>

\* the driver API's process starts: its module-level raag = RAGMemory(...)
\* loads the same memory.json
DriverStart ==
    LET built == RAGMemory(disk)
    IN /\ script = << >>
       /\ driver_memory = NoEngine
       /\ driver_memory' = built.memory
       /\ disk' = built.disk
       /\ ret' = [op |-> "__init__", args |-> [process |-> "api_driver"],
                  value |-> built.raised]
       /\ UNCHANGED <<memory, clock, outfile, calls, script, free, classifier_raag>>

\* a variant that loads the blob again before it updates
DriverUpdateMemory_reloading ==
    \E input \in Inputs :
        LET now1 == clock + 1
            now2 == clock + 2
            updated == update_memory(disk.document, input.category, input.data,
                                     now1, now2)
            alerted == Len(updated.reinforcement_data.model_improvements)
                         > Len(disk.document.reinforcement_data.model_improvements)
        IN /\ driver_memory # NoEngine
           /\ script = << >>
           /\ free > 0
           /\ driver_memory' = updated
           /\ disk' = json_dump(updated)
           /\ clock' = IF alerted THEN now2 ELSE now1
           /\ ret' = [op |-> "update_memory", args |-> [process |-> "api_driver"],
                      value |-> "None"]
           /\ calls' = Append(calls, [ category |-> input.category,
                                        record |-> Stamped(input.data, now1) ])
           /\ free' = free - 1
           /\ UNCHANGED <<memory, outfile, script, classifier_raag>>

\* update_memory on the engine of the driver API's process: it updates its
\* own copy and writes the whole of it over the blob
DriverUpdateMemory ==
    \E input \in Inputs :
        LET now1 == clock + 1
            now2 == clock + 2
            updated == update_memory(driver_memory, input.category, input.data,
                                     now1, now2)
            alerted == Len(updated.reinforcement_data.model_improvements)
                         > Len(driver_memory.reinforcement_data.model_improvements)
        IN /\ driver_memory # NoEngine
           /\ script = << >>
           /\ free > 0
           /\ driver_memory' = updated
           /\ disk' = json_dump(updated)
           /\ clock' = IF alerted THEN now2 ELSE now1
           /\ ret' = [op |-> "update_memory", args |-> [process |-> "api_driver"],
                      value |-> "None"]
           /\ calls' = Append(calls, [ category |-> input.category,
                                        record |-> Stamped(input.data, now1) ])
           /\ free' = free - 1
           /\ UNCHANGED <<memory, outfile, script, classifier_raag>>

\* the handler of POST /upload_box of the driver API: classification on
\* the engine of that process, then the metadata written into the dict the
\* classifier returned
DriverUploadBox ==
    \E response \in ClassifierResponses, save \in SaveOutcomes(disk),
       meta \in UploadMeta :
        LET now1 == clock + 1
            now2 == clock + 2
            done == classify_box_condition(driver_memory, disk, response, save,
                                           now1, now2)
            alerted == Len(done.memory.reinforcement_data.model_improvements)
                         > Len(driver_memory.reinforcement_data.model_improvements)
            result == AddMetadata(done.value, meta)
        IN /\ driver_memory # NoEngine
           /\ script = << >>
           /\ free > 0
           /\ response.kind = "raise" => save = Saved
           /\ driver_memory' = IF done.value.result # "ERROR"
                               THEN WithLastRecord(done.memory, "box_condition", result)
                               ELSE done.memory
           /\ disk' = done.disk
           /\ clock' = IF ~done.updated THEN clock
                       ELSE IF alerted THEN now2 ELSE now1
           /\ ret' = [op |-> "upload_box", args |-> [process |-> "api_driver"],
                      result |-> done.value,
                      value |-> [ condition |-> result.result,
                                  confidence |-> result.confidence,
                                  reason |-> result.reason,
                                  should_review |-> result.confidence < confidence_threshold,
                                  image_id |-> meta.image_id,
                                  driver_id |-> meta.driver_id,
                                  box_id |-> meta.box_id ]]
           /\ calls' = IF done.value.result # "ERROR"
                       THEN Append(calls, [ category |-> "box_condition",
                                            record |-> done.value ])
                       ELSE calls
           /\ free' = free - 1
           /\ UNCHANGED <<memory, outfile, script, classifier_raag>>

\* the in-memory state of the engine the classifier calls
ClassifierEngine == IF classifier_raag = SameEngine THEN memory ELSE classifier_raag

\* the handler of POST /upload_box: classification, on the engine the
\* classifier was built with
UploadBox ==
    \E response \in ClassifierResponses, save \in SaveOutcomes(disk) :
        LET now1 == clock + 1
            now2 == clock + 2
            done == classify_box_condition(ClassifierEngine, disk, response, save,
                                           now1, now2)
            alerted == Len(done.memory.reinforcement_data.model_improvements)
                         > Len(ClassifierEngine.reinforcement_data.model_improvements)
        IN /\ EngineUp
           /\ script = << >>
           /\ free > 0
           /\ response.kind = "raise" => save = Saved
           /\ IF classifier_raag = SameEngine
              THEN memory' = done.memory /\ UNCHANGED classifier_raag
              ELSE classifier_raag' = done.memory /\ UNCHANGED memory
           /\ disk' = done.disk
           /\ clock' = IF ~done.updated THEN clock
                       ELSE IF alerted THEN now2 ELSE now1
           /\ ret' = [op |-> "upload_box", args |-> [process |-> "api_enhanced"],
                      result |-> done.value,
                      value |-> [ condition |-> done.value.result,
                                  confidence |-> done.value.confidence,
                                  reason |-> done.value.reason,
                                  should_review |->
                                      done.value.confidence < confidence_threshold ]]
           /\ calls' = IF done.value.result # "ERROR"
                       THEN Append(calls, [ category |-> "box_condition",
                                            record |-> done.value ])
                       ELSE calls
           /\ free' = free - 1
           /\ UNCHANGED <<outfile, script, driver_memory>>

\* the handler of POST /feedback: the label as a record of confidence 1.0,
\* given to update_memory of the engine bound to raag
Feedback ==
    \E correct_label \in FeedbackLabels :
        LET feedback_data == [ result |-> correct_label, confidence |-> 100,
                               reason |-> "Human feedback" ]
            now1 == clock + 1
            now2 == clock + 2
            updated == update_memory(memory, "box_condition", feedback_data,
                                     now1, now2)
            alerted == Len(updated.reinforcement_data.model_improvements)
                         > Len(memory.reinforcement_data.model_improvements)
        IN /\ EngineUp
           /\ script = << >>
           /\ free > 0
           /\ memory' = updated
           /\ disk' = json_dump(updated)
           /\ clock' = IF alerted THEN now2 ELSE now1
           /\ ret' = [op |-> "feedback", args |-> [correct_label |-> correct_label],
                      value |-> [status |-> "success"]]
           /\ calls' = Append(calls, [ category |-> "box_condition",
                                        record |-> Stamped(feedback_data, now1) ])
           /\ free' = free - 1
           /\ UNCHANGED <<outfile, script, peers>>

----------------------------------------------------------------------------
(* Specifications *)

\* update_memory calls only, from a fresh engine
Init == InitWith(Scripts, MaxFree)
Next == UpdateMemory
Spec == Init /\ [][Next]_vars

\* updates and retrievals
InitRetrieve == InitWith(RetrieveScripts, MaxOps)
NextRetrieve ==
    \/ UpdateMemory
    \/ RetrieveContext
SpecRetrieve == InitRetrieve /\ [][NextRetrieve]_vars

\* updates, marking, the retraining test and export
InitTraining == InitWith(TrainingScripts, MaxOps)
NextTraining ==
    \/ UpdateMemory
    \/ MarkAsUsedForTraining
    \/ ShouldTriggerRetraining
    \/ ExportTrainingData
SpecTraining == InitTraining /\ [][NextTraining]_vars

\* updates, and retrievals from any top-level key
InitCategories == InitWith({<< >>}, MaxOps)
NextCategories ==
    \/ UpdateMemory
    \/ RetrieveContextOfKey
SpecCategories == InitCategories /\ [][NextCategories]_vars

\* updates whose confidence is any number
InitUnvalidated == InitWith({<< >>}, MaxOps)
NextUnvalidated == UpdateMemoryUnvalidated
SpecUnvalidated == InitUnvalidated /\ [][NextUnvalidated]_vars

\* updates, marking and statistics reads
InitStatistics == InitWith(StatisticsScripts, MaxOps)
NextStatistics ==
    \/ UpdateMemory
    \/ MarkAsUsedForTraining
    \/ GetStatistics
SpecStatistics == InitStatistics /\ [][NextStatistics]_vars

\* two processes, each with its own engine object on the same blob
WriterScripts == { << >>, << Run(HighInput, 2) >> }
InitWriters == InitWith(WriterScripts, MaxOps)
NextWriters ==
    \/ UpdateMemory
    \/ DriverStart
    \/ DriverUpdateMemory
SpecWriters == InitWriters /\ [][NextWriters]_vars

\* the driver API's process: uploads and other updates on its engine
InitDriver == InitWith({<< >>}, MaxOps)
NextDriver ==
    \/ DriverStart
    \/ DriverUploadBox
    \/ DriverUpdateMemory
SpecDriver == InitDriver /\ [][NextDriver]_vars

\* the API's process: uploads, feedback, statistics reads and reset
InitApi == InitWith({<< >>}, MaxOps)
NextApi ==
    \/ UploadBox
    \/ Feedback
    \/ GetStatistics
    \/ ResetMemory
SpecApi == InitApi /\ [][NextApi]_vars

\* updates, marks, and reads of the retraining trigger and the statistics
InitRetraining == InitWith(RetrainingScripts, MaxOps)
NextRetraining ==
    \/ UpdateMemory
    \/ MarkScripted
    \/ MarkAsUsedForTraining
    \/ ShouldTriggerRetraining
    \/ GetStatistics
SpecRetraining == InitRetraining /\ [][NextRetraining]_vars

\* a process that updates, marks, and stops and starts again on its blob
InitRestart == InitWith(RestartScripts, MaxOps)
NextRestart ==
    \/ UpdateMemory
    \/ MarkAsUsedForTraining
    \/ Start
SpecRestart == InitRestart /\ [][NextRestart]_vars

\* a process that starts, updates, marks, fails to save, restarts, resets
InitStorage ==
    /\ memory = NoEngine
    /\ disk \in StartBlobs
    /\ clock = 0
    /\ ret = NoReturn
    /\ outfile = << >>
    /\ calls = << >>
    /\ script \in StorageScripts
    /\ free = MaxOps
    /\ classifier_raag = SameEngine
    /\ driver_memory = NoEngine
NextStorage ==
    \/ Start
    \/ UpdateMemoryLive
    \/ MarkLive
    \/ UpdateMemorySaveFails
    \/ ResetMemory
SpecStorage == InitStorage /\ [][NextStorage]_vars

----------------------------------------------------------------------------
(* Properties *)

HighBucket == memory.reinforcement_data.high_confidence_correct
LowBucket == memory.reinforcement_data.low_confidence_cases
DriftLog == memory.reinforcement_data.model_improvements
Statistics == memory.statistics

\* a step in which one update_memory call returns
UpdateStep == Len(calls') = Len(calls) + 1

\* the records of the calls so far whose confidence met / missed 0.85
HighCalls == SelectSeq(calls, LAMBDA c : c.record.confidence >= 85)
LowCalls == SelectSeq(calls, LAMBDA c : c.record.confidence < 85)

UnusedCount(mem) ==
    Cardinality({i \in 1..Len(mem.reinforcement_data.high_confidence_correct) :
                    ~mem.reinforcement_data.high_confidence_correct[i].used_for_training})

\* C1: after N update_memory calls on a fresh engine, whatever their
\* categories and confidences, total_evaluations is N.
C1_TotalCountsEveryUpdate ==
    Statistics.total_evaluations = Len(calls)

C1_Witness ==
    /\ Len(calls) > 100
    /\ Statistics.total_evaluations = Len(calls)
    /\ \E i, j \in 1..Len(calls) :
          /\ calls[i].category # calls[j].category
          /\ calls[i].record.confidence < 85
          /\ calls[j].record.confidence >= 85

C3_DriftScoreIsLowRate ==
    IF Statistics.total_evaluations >= 10
    THEN Statistics.drift_score.num * Statistics.total_evaluations
            = Statistics.low_confidence_cases * Statistics.drift_score.den
    ELSE Statistics.drift_score.num = 0

C3_Witness ==
    /\ Statistics.total_evaluations = 10
    /\ Statistics.low_confidence_cases = 3
    /\ Statistics.drift_score.num * 10 = 3 * Statistics.drift_score.den

\* C4: an update appends a drift event exactly when, counting that update,
\* total_evaluations >= 10 and low_confidence_cases / total_evaluations >
\* 0.30, and then exactly one event carrying that rate; nothing is logged
\* during the first 9 updates; ten updates at 0.90 followed by five at 0.50
\* log their first event on the 15th.
ScenarioC == [i \in 1..15 |-> IF i <= 10 THEN 90 ELSE 50]

OnScenarioC ==
    /\ Len(calls) <= 15
    /\ \A i \in 1..Len(calls) : calls[i].record.confidence = ScenarioC[i]

C4_DriftEventIffRateExceeds ==
    /\ [][UpdateStep =>
            LET total == memory'.statistics.total_evaluations
                low == memory'.statistics.low_confidence_cases
                before == memory.reinforcement_data.model_improvements
                after == memory'.reinforcement_data.model_improvements
            IN IF total >= 10 /\ low * 100 > 30 * total
               THEN /\ Len(after) = Len(before) + 1
                    /\ SubSeq(after, 1, Len(before)) = before
                    /\ after[Len(after)].event = "DRIFT_DETECTED"
                    /\ after[Len(after)].drift_score.num * total
                          = low * after[Len(after)].drift_score.den
               ELSE after = before]_vars
    /\ [](Len(calls) <= 9 => DriftLog = << >>)
    /\ [](OnScenarioC => Len(DriftLog) = IF Len(calls) = 15 THEN 1 ELSE 0)

C4_Witness ==
    /\ Len(calls) = 15
    /\ OnScenarioC
    /\ Len(DriftLog) = 1
    /\ DriftLog[1].drift_score.num * 15 = 5 * DriftLog[1].drift_score.den

\* C5: an update appends its record to the high bucket only, with
\* used_for_training = false, when its confidence is >= 0.85, and to the low
\* bucket only, with needs_review = true, otherwise; it goes to the low
\* bucket exactly when the update increments low_confidence_cases.  One
\* update at 0.90 on a fresh engine leaves high length 1, low length 0,
\* total_evaluations 1.
AppendedTo(bucket, entry, after) ==
    \E dropped \in {0, 1} :
        after = SubSeq(Append(bucket, entry), 1 + dropped, Len(bucket) + 1)

AskedLog ==
    IF ret.args.category \in DOMAIN memory THEN memory[ret.args.category] ELSE << >>

AskedWindow ==
    {AskedLog[j] : j \in {k \in 1..Len(AskedLog) : k > Len(AskedLog) - 20}}

\* C6: retrieve_context(category, n) returns at most n records, each among
\* the 20 most recently appended records of that category (n >= 0).
C6_RetrieveWithinWindow ==
    ret.op = "retrieve_context" =>
        /\ Len(ret.value) <= ret.args.n
        /\ \A i \in 1..Len(ret.value) : ret.value[i] \in AskedWindow

C6_Witness ==
    /\ ret.op = "retrieve_context"
    /\ ret.args.n = 5
    /\ Len(ret.value) = 5
    /\ Len(AskedLog) > 20
    /\ AskedLog[1] \notin AskedWindow
    /\ AskedLog[1].confidence > ret.value[5].confidence

\* C7: retrieve_context(category, n) returns the min(n, window size)
\* best-ranked records of the last-20 window, best first, rank being
\* confidence descending then timestamp descending.
Outranks(a, b) ==
    \/ a.confidence > b.confidence
    \/ a.confidence = b.confidence /\ a.timestamp > b.timestamp

C7_RetrieveTopRanked ==
    ret.op = "retrieve_context" =>
        LET returned == {ret.value[i] : i \in 1..Len(ret.value)}
        IN /\ Len(ret.value) = Min(ret.args.n, Cardinality(AskedWindow))
           /\ Cardinality(returned) = Len(ret.value)
           /\ returned \subseteq AskedWindow
           /\ \A i, j \in 1..Len(ret.value) :
                 i < j => Outranks(ret.value[i], ret.value[j])
           /\ \A x \in AskedWindow \ returned :
                 \A y \in returned : ~Outranks(x, y)

C7_Witness ==
    /\ ret.op = "retrieve_context"
    /\ ret.args.n = 5
    /\ Len(ret.value) = 5
    /\ Cardinality(AskedWindow) = 20
    /\ ret.value[1].confidence > ret.value[2].confidence
    /\ ret.value[2].confidence = ret.value[3].confidence
    /\ ret.value[2].timestamp > ret.value[3].timestamp
    /\ \E x \in AskedWindow : x.confidence = ret.value[5].confidence
                                /\ x.timestamp < ret.value[5].timestamp

C9_ExportChangesNothing ==
    [][ret'.op = "export_training_data" =>
          /\ memory' = memory
          /\ disk' = disk
          /\ UnusedCount(memory') = UnusedCount(memory)
          /\ Len(outfile') = UnusedCount(memory')
          /\ ret'.value.samples = Len(outfile')]_vars

C9_Witness ==
    /\ ret.op = "export_training_data"
    /\ Len(outfile) >= 2
    /\ UnusedCount(memory) = Len(outfile)
    /\ Len(HighBucket) > Len(outfile)

\* C10: after an export the file holds one line per high-bucket entry with
\* used_for_training = false, in bucket order; each line is a system, user,
\* assistant exchange whose assistant payload carries the status, reason and
\* confidence of that entry's record.
UnusedPositions == {i \in 1..Len(HighBucket) : ~HighBucket[i].used_for_training}

\* the bucket position of the k-th unconsumed entry
UnusedPosition(k) ==
    CHOOSE i \in UnusedPositions :
        Cardinality({j \in UnusedPositions : j <= i}) = k

C10_ExportOneLinePerUnused ==
    ret.op = "export_training_data" =>
        /\ Len(outfile) = Cardinality(UnusedPositions)
        /\ \A k \in 1..Len(outfile) :
              LET record == HighBucket[UnusedPosition(k)].prediction
                  messages == outfile[k].messages
              IN /\ Len(messages) = 3
                 /\ messages[1].role = "system"
                 /\ messages[2].role = "user"
                 /\ messages[3].role = "assistant"
                 /\ messages[3].content = << <<"status", record.result>>,
                                             <<"reason", record.reason>>,
                                             <<"confidence", record.confidence>> >>

C10_Witness ==
    /\ ret.op = "export_training_data"
    /\ Len(outfile) = 3
    /\ Len(LowBucket) >= 1
    /\ HighBucket[1].used_for_training
    /\ outfile[1].messages[3].content # outfile[3].messages[3].content

\* a step in which one mark_as_used_for_training call returns
MarkStep == ret'.op = "mark_as_used_for_training"

\* C11: mark_as_used_for_training(n) consumes the first n entries of the
\* unconsumed ordering: in every reachable state, some entries already
\* consumed or not, the number of unconsumed entries after the call is the
\* number before it minus min(n, number before).
C11_MarkConsumesFirstUnconsumed ==
    [][MarkStep =>
          UnusedCount(memory')
              = UnusedCount(memory) - Min(ret'.args.n_samples, UnusedCount(memory))]_vars

\* the bucket entries without their used_for_training flag
Unflagged(bucket) ==
    [i \in 1..Len(bucket) |->
        [prediction |-> bucket[i].prediction, timestamp |-> bucket[i].timestamp]]

C13_ResetLeavesFreshState ==
    ret.op = "reset_memory" =>
        /\ ret.value.status = "success"
        /\ \A key \in DOMAIN memory \ {"statistics", "patterns", "reinforcement_data"} :
              memory[key] = << >>
        /\ DOMAIN memory = DOMAIN initial_memory
        /\ HighBucket = << >>
        /\ LowBucket = << >>
        /\ DriftLog = << >>
        /\ memory.patterns.confidence_history = << >>
        /\ Statistics.total_evaluations = 0
        /\ Statistics.low_confidence_cases = 0
        /\ Statistics.drift_score.num = 0
        /\ memory = initial_memory
        /\ disk = json_dump(initial_memory)

\* a reset after ten updates that returned and one whose save failed, with
\* drift events logged
C13_Witness ==
    /\ ret.op = "reset_memory"
    /\ memory = initial_memory
    /\ disk = json_dump(initial_memory)
    /\ Len(calls) >= 10
    /\ clock > Len(calls) + 2
    /\ free = 0

Last(s) == s[Len(s)]

\* C14: update_memory stamps the record, appends it to the category log,
\* updates the statistics, inserts the bucket entry, evaluates drift and
\* saves, in this order: whenever update_memory or
\* mark_as_used_for_training returns normally, the blob is the whole
\* in-memory state, with the record, the counters, the bucket entry and the
\* drift event of that call, the event computed from the counters that
\* already count the call.
C14_ReturnImpliesFullSave ==
    [][(UpdateStep \/ (MarkStep /\ ret'.value = "None")) =>
          /\ Parses(disk'.document)
          /\ disk' = json_dump(memory')
          /\ UpdateStep =>
                LET saved == disk'.document
                    call == Last(calls')
                    r == call.record
                    total == memory.statistics.total_evaluations + 1
                    low == memory.statistics.low_confidence_cases
                              + (IF r.confidence < 85 THEN 1 ELSE 0)
                    events == saved.reinforcement_data.model_improvements
                    drifted == total >= 10 /\ low * 100 > 30 * total
                IN /\ r.timestamp > clock
                   /\ Last(saved[call.category]) = r
                   /\ saved.statistics.total_evaluations = total
                   /\ saved.statistics.low_confidence_cases = low
                   /\ Last(saved.patterns.confidence_history) = r.confidence
                   /\ IF r.confidence >= 85
                      THEN Last(saved.reinforcement_data.high_confidence_correct).prediction = r
                      ELSE Last(saved.reinforcement_data.low_confidence_cases).prediction = r
                   /\ Len(events) = Len(memory.reinforcement_data.model_improvements)
                                      + (IF drifted THEN 1 ELSE 0)
                   /\ drifted =>
                         /\ Last(events).timestamp > r.timestamp
                         /\ Last(events).drift_score.num * total
                               = low * Last(events).drift_score.den]_vars

\* an update that returned with the drift event it produced, after a save
\* that had failed
C14_Witness ==
    /\ ret.op = "update_memory"
    /\ ret.value = "None"
    /\ DriftLog # << >>
    /\ Last(DriftLog).timestamp = clock
    /\ Last(calls).record.timestamp = clock - 1
    /\ disk = json_dump(memory)
    /\ Statistics.total_evaluations > Len(calls)

\* no update_memory call has appended to this category
NeverAppended(category) == \A i \in 1..Len(calls) : calls[i].category # category

\* C15: retrieve_context never fails: for every top-level key of the state
\* and every other category string it returns a sequence, the empty one for
\* a category no record was ever appended to, and it changes no state.
C15_RetrieveNeverFails ==
    /\ [](ret.op = "retrieve_context" =>
             /\ ret.raised = "None"
             /\ NeverAppended(ret.args.category) => ret.value = << >>)
    /\ [][ret'.op = "retrieve_context" => UNCHANGED <<memory, disk>>]_vars

InUnitRange(confidence) == 0 <= confidence /\ confidence <= 100

\* C16: an update whose confidence is outside [0, 1] fails with an
\* invalid-record error and changes no state; every record of every
\* category log, every bucket entry and every confidence_history element
\* has a confidence within [0, 1] in every reachable state.
C16_ConfidenceValidated ==
    /\ [][(ret'.op = "update_memory" /\ ~InUnitRange(ret'.args.confidence))
            => /\ ret'.value = "InvalidRecordError"
               /\ UNCHANGED <<memory, disk>>]_vars
    /\ [](/\ \A key \in DOMAIN memory \ DictKeys :
                \A i \in 1..Len(memory[key]) : InUnitRange(memory[key][i].confidence)
          /\ \A i \in 1..Len(HighBucket) : InUnitRange(HighBucket[i].prediction.confidence)
          /\ \A i \in 1..Len(LowBucket) : InUnitRange(LowBucket[i].prediction.confidence)
          /\ \A i \in 1..Len(memory.patterns.confidence_history) :
                InUnitRange(memory.patterns.confidence_history[i]))

\* a step in which one RAGMemory(...) construction ends
ConstructStep == ret'.op = "__init__"

\* C17: constructing the engine when no blob exists yields the initial
\* state and creates the blob, without error; constructing it when the blob
\* exists and cannot be parsed raises to the caller and leaves the blob as
\* it was, neither repaired nor overwritten.
C17_ConstructionAgainstBlob ==
    [][ConstructStep =>
          /\ ~disk.exists =>
                /\ ret'.value = "None"
                /\ memory' = initial_memory
                /\ disk' = json_dump(initial_memory)
          /\ (disk.exists /\ ~Parses(disk.document)) =>
                /\ ret'.value = "JSONDecodeError"
                /\ memory' = NoEngine
                /\ disk' = disk]_vars

\* a restart that found the file emptied by a failed save
C17_Witness ==
    /\ ret.op = "__init__"
    /\ ret.value = "JSONDecodeError"
    /\ memory = NoEngine
    /\ disk = Truncated("empty")
    /\ Len(calls) >= 1

\* a step in which update_memory raises from its save
FailedUpdateStep == ret'.op = "update_memory" /\ ret'.value # "None"

IsPrefix(s, t) == Len(s) <= Len(t) /\ SubSeq(t, 1, Len(s)) = s

\* C18: when the save of update_memory fails, the caller gets the error and
\* the in-memory state keeps what the update computed: the record in the
\* category log, the counters, the history, the bucket entry and the drift
\* event; the next save that succeeds writes all of it.
C18_FailedSaveKeepsMemory ==
    /\ [][FailedUpdateStep =>
            LET r == ret'.args.record
                total == memory.statistics.total_evaluations + 1
                low == memory.statistics.low_confidence_cases
                          + (IF r.confidence < 85 THEN 1 ELSE 0)
                events == memory'.reinforcement_data.model_improvements
                drifted == total >= 10 /\ low * 100 > 30 * total
            IN /\ ret'.value = "OSError"
               /\ memory'.statistics.total_evaluations = total
               /\ memory'.statistics.low_confidence_cases = low
               /\ Len(memory'[ret'.args.category]) = Len(memory[ret'.args.category]) + 1
               /\ Last(memory'[ret'.args.category]) = r
               /\ Last(memory'.patterns.confidence_history) = r.confidence
               /\ IF r.confidence >= 85
                  THEN Last(memory'.reinforcement_data.high_confidence_correct).prediction = r
                  ELSE Last(memory'.reinforcement_data.low_confidence_cases).prediction = r
               /\ Len(events) = Len(memory.reinforcement_data.model_improvements)
                                  + (IF drifted THEN 1 ELSE 0)]_vars
    /\ [][(UpdateStep \/ (MarkStep /\ ret'.value = "None")) =>
            LET saved == disk'.document
            IN /\ Parses(saved)
               /\ saved.statistics.total_evaluations
                     = memory.statistics.total_evaluations
                         + (IF UpdateStep THEN 1 ELSE 0)
               /\ IsPrefix(memory.reinforcement_data.model_improvements,
                           saved.reinforcement_data.model_improvements)
               /\ \A key \in DOMAIN memory \ DictKeys :
                     IsPrefix(memory[key], saved[key])
               /\ (ret.op = "update_memory" /\ ret.value # "None") =>
                     LET r == ret.args.record
                         bucket == IF r.confidence >= 85
                                   THEN saved.reinforcement_data.high_confidence_correct
                                   ELSE saved.reinforcement_data.low_confidence_cases
                         history == saved.patterns.confidence_history
                     IN /\ \E i \in 1..Len(saved[ret.args.category]) :
                              saved[ret.args.category][i] = r
                        /\ \E i \in 1..Len(bucket) : bucket[i].prediction = r
                        /\ \E i \in 1..Len(history) : history[i] = r.confidence]_vars

\* a save that succeeded after one that failed: the blob holds a record and
\* a drift event of the update whose save failed
C18_Witness ==
    /\ ret.op = "update_memory"
    /\ ret.value = "None"
    /\ disk = json_dump(memory)
    /\ Statistics.total_evaluations = Len(calls) + 1
    /\ \E i \in 1..Len(disk.document.box_condition) :
          \A j \in 1..Len(calls) : calls[j].record # disk.document.box_condition[i]
    /\ Len(disk.document.reinforcement_data.model_improvements) = 2

\* a step in which a call that saves ends, normally or not
SaveStep == ret'.op \in {"update_memory", "mark_as_used_for_training"}

\* C19: a save introduces no partial-write corruption: after a save that
\* fails or is interrupted at any point the blob is the whole document saved
\* before or the whole new document, never an empty or truncated text, and
\* a later construction of the engine loads it.
C19_NoPartialWrite ==
    [][(SaveStep /\ Parses(disk.document)) =>
          /\ disk' = disk \/ disk' = json_dump(memory')
          /\ Parses(disk'.document)
          /\ RAGMemory(disk').raised = "None"]_vars

ConfidenceHistory == memory.patterns.confidence_history

\* C20: confidence_history is a FIFO window of capacity 100: after N
\* updates on a fresh engine it holds the confidences of the last
\* min(N, 100) updates, in update order, whatever their categories.
C20_HistoryIsLastHundred ==
    /\ Len(ConfidenceHistory) = Min(Len(calls), 100)
    /\ \A i \in 1..Len(ConfidenceHistory) :
          ConfidenceHistory[i]
              = calls[Len(calls) - Len(ConfidenceHistory) + i].record.confidence

\* more than 100 updates in two categories, the oldest confidences gone
C20_Witness ==
    /\ Len(calls) = 150
    /\ Len(ConfidenceHistory) = 100
    /\ ConfidenceHistory[49] = 90
    /\ ConfidenceHistory[50] = 50
    /\ ConfidenceHistory[100] = 85
    /\ ConfidenceHistory[99] = 100
    /\ calls[Len(calls) - 1].category = "driver_note"
    /\ calls[Len(calls)].category = "box_condition"

\* C21: get_statistics changes neither the in-memory state nor the blob;
\* its low_confidence_rate is low_confidence_cases / max(total_evaluations,
\* 1); its training_samples_available is the number of high-bucket entries
\* with used_for_training = false, hence at most 100 and the number of lines
\* an export would write in that state.
C21_StatisticsReadOnly ==
    /\ [][ret'.op = "get_statistics" => UNCHANGED <<memory, disk>>]_vars
    /\ [](ret.op = "get_statistics" =>
             /\ ret.value.low_confidence_rate.num * Max(Statistics.total_evaluations, 1)
                   = Statistics.low_confidence_cases * ret.value.low_confidence_rate.den
             /\ ret.value.low_confidence_rate.den > 0
             /\ ret.value.total_evaluations = Statistics.total_evaluations
             /\ ret.value.low_confidence_cases = Statistics.low_confidence_cases
             /\ ret.value.training_samples_available = UnusedCount(memory)
             /\ ret.value.training_samples_available <= 100
             /\ ret.value.training_samples_available
                   = Len(export_for_finetuning(memory).lines))

\* a read on a full high bucket with two entries consumed
C21_Witness ==
    /\ ret.op = "get_statistics"
    /\ ret.value.training_samples_available = 98
    /\ Len(HighBucket) = 100
    /\ ret.value.low_confidence_rate.num = 3
    /\ ret.value.low_confidence_rate.den = 103

\* the records of the category logs of a document
Records(document) ==
    UNION {{document[key][i] : i \in 1..Len(document[key])} :
              key \in DOMAIN document \ DictKeys}

\* a step in which update_memory of the driver API's engine returns
DriverUpdateStep ==
    ret'.op = "update_memory" /\ ret'.args = [process |-> "api_driver"]

\* C22: two writers with their own loaded copies of one blob and no lock
\* lose updates: a writer's save writes its own whole state, so the records
\* and increments the other writer saved since this writer loaded are gone
\* from the blob, which then counts one evaluation more than this writer's
\* copy did; one update by each writer leaves a blob that reflects one.
C22_SecondWriteDiscardsFirst ==
    /\ [][DriverUpdateStep =>
            /\ disk' = json_dump(driver_memory')
            /\ disk'.document.statistics.total_evaluations
                  = driver_memory.statistics.total_evaluations + 1
            /\ \A r \in Records(disk.document) \ Records(driver_memory) :
                  r \notin Records(disk'.document)]_vars
    /\ [][(UpdateStep /\ ~DriverUpdateStep) =>
            /\ disk' = json_dump(memory')
            /\ disk'.document.statistics.total_evaluations
                  = memory.statistics.total_evaluations + 1
            /\ \A r \in Records(disk.document) \ Records(memory) :
                  r \notin Records(disk'.document)]_vars
    /\ []((/\ driver_memory # NoEngine
           /\ Len(calls) = 2
           /\ memory.statistics.total_evaluations = 1
           /\ driver_memory.statistics.total_evaluations = 1)
            => /\ disk.document.statistics.total_evaluations = 1
               /\ Cardinality(Records(disk.document)) = 1)

\* one update by each writer, both having loaded the initial blob: the blob
\* holds the driver's record and not the other
C22_Witness ==
    /\ Len(calls) = 2
    /\ driver_memory # NoEngine
    /\ memory.statistics.total_evaluations = 1
    /\ driver_memory.statistics.total_evaluations = 1
    /\ disk = json_dump(driver_memory)
    /\ disk.document.statistics.total_evaluations = 1
    /\ calls[1].record \notin Records(disk.document)
    /\ calls[2].record \in Records(disk.document)

\* a state in which an upload has returned a classification that
\* update_memory appended, and the record as it was appended
Uploaded == ret.op = "upload_box" /\ ret.result.result # "ERROR"

\* C23: a record is immutable once update_memory has appended it: no later
\* operation of the engine or of its callers, the upload handler that adds
\* driver_id, box_id and image_id included, changes a record already in a
\* category log or a bucket, in memory or in a blob saved later.
C23_RecordsImmutable ==
    /\ [](Uploaded =>
             /\ Last(driver_memory.box_condition) = ret.result
             /\ ret.result.confidence >= 85 =>
                   Last(driver_memory.reinforcement_data.high_confidence_correct).prediction
                       = ret.result)
    /\ [][driver_memory # NoEngine =>
             \A key \in DOMAIN driver_memory \ DictKeys :
                 IsPrefix(driver_memory[key], driver_memory'[key])]_vars
    /\ [][(Parses(disk.document) /\ Parses(disk'.document)) =>
             \A key \in DOMAIN disk.document \ DictKeys :
                 IsPrefix(disk.document[key], disk'.document[key])]_vars

\* a step in which an upload returns a classification, or a feedback
\* submission returns
ClassifiedStep == ret'.op = "upload_box" /\ ret'.result.result # "ERROR"
FeedbackStep == ret'.op = "feedback"

\* C24: after reset_memory every component uses one and the same engine:
\* reset leaves total_evaluations at 0 in the engine /statistics reads, and
\* each later successful classification and each later feedback submission
\* adds one to it, so that get_statistics().total_evaluations is the number
\* of updates since the last reset.
C24_OneEngineAfterReset ==
    /\ [][ret'.op = "reset_memory" =>
             get_statistics(memory').total_evaluations = 0]_vars
    /\ [][(ClassifiedStep \/ FeedbackStep) =>
             get_statistics(memory').total_evaluations
                 = get_statistics(memory).total_evaluations + 1]_vars

\* the reset handler has replaced the engine bound to raag
AfterReset == classifier_raag # SameEngine

\* the entries of the two buckets and the drift events of a document
Entries(document) ==
    LET high == document.reinforcement_data.high_confidence_correct
        low == document.reinforcement_data.low_confidence_cases
        events == document.reinforcement_data.model_improvements
    IN {high[i] : i \in 1..Len(high)} \cup {low[i] : i \in 1..Len(low)}
         \cup {events[i] : i \in 1..Len(events)}

\* C25: data discarded by a reset never comes back. Reset leaves a blob with
\* no record, no entry, no event and counters at zero; from then on whatever
\* a step adds to the blob was produced by that step: a record, bucket entry
\* or drift event the blob gains is stamped with a clock reading of the
\* step, and total_evaluations grows by at most one.
C25_DiscardedDataStaysGone ==
    /\ [][ret'.op = "reset_memory" => disk' = json_dump(initial_memory)]_vars
    /\ [][(AfterReset /\ Parses(disk.document) /\ Parses(disk'.document)) =>
             /\ \A r \in Records(disk'.document) \ Records(disk.document) :
                    r.timestamp > clock
             /\ \A e \in Entries(disk'.document) \ Entries(disk.document) :
                    e.timestamp > clock
             /\ disk'.document.statistics.total_evaluations
                    <= disk.document.statistics.total_evaluations + 1]_vars

\* a step in which the upload handler's call of classify_box_condition returns
ClassifyStep == ret'.op = "upload_box"

\* C29: classify_box_condition returns the ERROR result only when it left
\* the engine unchanged: with ERROR, the category log, total_evaluations,
\* the buckets and confidence_history are what they were before the call;
\* with any other result, exactly one record, the returned one, was
\* appended and the blob is the engine's whole state.
C29_ErrorMeansUnchanged ==
    [][ClassifyStep =>
         LET before == ClassifierEngine
             after == ClassifierEngine'
         IN IF ret'.result.result = "ERROR"
            THEN /\ after.box_condition = before.box_condition
                 /\ after.statistics.total_evaluations
                        = before.statistics.total_evaluations
                 /\ after.reinforcement_data = before.reinforcement_data
                 /\ after.patterns.confidence_history
                        = before.patterns.confidence_history
            ELSE /\ after.box_condition
                        = Append(before.box_condition, ret'.result)
                 /\ after.statistics.total_evaluations
                        = before.statistics.total_evaluations + 1
                 /\ disk' = json_dump(after)]_vars

ConsumedCount == Len(HighBucket) - UnusedCount(memory)

\* a step in which an update evicts the oldest entry of the high bucket
EvictStep ==
    /\ UpdateStep
    /\ Len(HighBucket) = 100
    /\ Last(calls').record.confidence >= 85

\* C27: in the high bucket the consumed entries form a prefix: no consumed
\* entry comes after an unconsumed one, the unconsumed training set is the
\* rest of the bucket in order, and an eviction removes an unconsumed entry
\* only when no consumed one is left.
C27_ConsumedIsPrefix ==
    /\ [](/\ \A i \in 1..Len(HighBucket) :
                HighBucket[i].used_for_training <=> i <= ConsumedCount
          /\ get_training_dataset(memory)
                = [i \in 1..UnusedCount(memory) |->
                      HighBucket[ConsumedCount + i].prediction])
    /\ [][EvictStep =>
             /\ ~HighBucket[1].used_for_training =>
                   \A i \in 1..100 : ~HighBucket[i].used_for_training
             /\ HighBucket[1].used_for_training =>
                   UnusedCount(memory') = UnusedCount(memory) + 1]_vars

\* a full bucket whose two oldest entries were consumed, after the eviction
\* of the oldest: a consumed entry first, then unconsumed ones
C27_Witness ==
    /\ ret.op = "update_memory"
    /\ Len(HighBucket) = 100
    /\ HighBucket[1].timestamp = 2
    /\ HighBucket[1].used_for_training
    /\ ~HighBucket[2].used_for_training
    /\ ConsumedCount = 1

\* the category logs of the engine, one after the other
LoggedCount(mem) ==
    LET keys == DOMAIN mem \ DictKeys
        count[ks \in SUBSET keys] ==
            IF ks = {} THEN 0
            ELSE LET k == CHOOSE x \in ks : TRUE
                 IN Len(mem[k]) + count[ks \ {k}]
    IN count[keys]

\* C28: the counters are mutually consistent in every state reachable from a
\* fresh engine: 0 <= low_confidence_cases <= total_evaluations, neither
\* counter ever decreases, 0 <= drift_score <= 1, the low bucket has
\* min(low_confidence_cases, 50) entries, the high bucket
\* min(total_evaluations - low_confidence_cases, 100), and the category logs
\* together hold total_evaluations records.
C28_CountersConsistent ==
    /\ [](/\ 0 <= Statistics.low_confidence_cases
          /\ Statistics.low_confidence_cases <= Statistics.total_evaluations
          /\ 0 <= Statistics.drift_score.num
          /\ Statistics.drift_score.num <= Statistics.drift_score.den
          /\ Len(LowBucket) = Min(Statistics.low_confidence_cases, 50)
          /\ Len(HighBucket)
                = Min(Statistics.total_evaluations
                         - Statistics.low_confidence_cases, 100)
          /\ LoggedCount(memory) = Statistics.total_evaluations)
    /\ [][/\ memory'.statistics.total_evaluations
                >= memory.statistics.total_evaluations
          /\ memory'.statistics.low_confidence_cases
                >= memory.statistics.low_confidence_cases]_vars

\* training_samples_available as get_statistics reports it
SamplesAvailable(mem) == get_statistics(mem).training_samples_available

\* a step in which mark_as_used_for_training(n) returns, n at least the
\* length of the high bucket
FullMarkStep == MarkStep /\ ret'.args.n_samples >= Len(HighBucket)

\* a step in which an update with confidence >= confidence_threshold returns
HighUpdateStep ==
    UpdateStep /\ GreaterEq(Last(calls').record.confidence, confidence_threshold)

\* C30: a mark of the whole high bucket leaves training_samples_available
\* at 0 and should_trigger_retraining() false; from then on only an update
\* with confidence >= confidence_threshold raises
\* training_samples_available, by exactly one, and it does so whenever the
\* number is below 100; should_trigger_retraining() is true only with at
\* least 50 samples available, that is, after at least 50 such updates.
C30_NoRetrainingUntilFiftyNew ==
    /\ [][FullMarkStep =>
             /\ SamplesAvailable(memory') = 0
             /\ ~should_trigger_retraining(memory')]_vars
    /\ [][(HighUpdateStep /\ SamplesAvailable(memory) < 100) =>
             SamplesAvailable(memory') = SamplesAvailable(memory) + 1]_vars
    /\ [][SamplesAvailable(memory') > SamplesAvailable(memory) =>
             /\ HighUpdateStep
             /\ SamplesAvailable(memory') = SamplesAvailable(memory) + 1]_vars
    /\ [](should_trigger_retraining(memory) => SamplesAvailable(memory) >= 50)
    /\ []((ret.op = "should_trigger_retraining" /\ SamplesAvailable(memory) < 50)
             => ret.value = FALSE)

\* the trigger read as true right after the 50th high-confidence update that
\* followed a mark of the whole bucket
C30_Witness ==
    /\ ret.op = "should_trigger_retraining"
    /\ ret.value = TRUE
    /\ Len(calls) = 95
    /\ Len(HighBucket) = 55
    /\ SamplesAvailable(memory) = 50
    /\ \A i \in 1..5 : HighBucket[i].used_for_training

====
